---- MODULE Spec2Model ----
(***************************************************************************)
(* Model of scripts/lib/api/addFrontMatter.ts.                             *)
(*                                                                         *)
(* addFrontMatter(results, pkg) walks the array `results` and, for each    *)
(* page object, replaces `result.markdown` by a front-matter block         *)
(* followed by the previous markdown.  Strings are modelled as sequences   *)
(* of one-character strings so that prefixes, suffixes and lines of the    *)
(* produced text can be inspected.  Page objects live in `heap`, and       *)
(* `results` holds references to them, so that the same object may occur   *)
(* at several positions of the array.                                      *)
(***************************************************************************)
EXTENDS Naturals, Integers, Sequences, FiniteSets, TLC

VARIABLES
  results,   \* the array argument: a sequence of references into heap
  pkg,       \* the Pkg argument
  heap,      \* page objects: reference -> [markdown, meta, isReleaseNotes]
  idx,       \* position of the for-of iterator (next element to visit)
  result,    \* loop variable `result` of the last iteration (0: none yet)
  markdown,  \* local `markdown` of the last iteration
  pc,        \* "loop" while the call runs, "done" once it has returned
  calls,     \* number of invocations started on these arguments
  initial,   \* history: the page objects as they were handed to the first call
  workers    \* callers running the function on parts of the array (SpecPar)

vars == <<results, pkg, heap, idx, result, markdown, pc, calls, initial, workers>>

----------------------------------------------------------------------------
(* Bounds of the model.                                                    *)

MaxLen == 2      \* longest `results` array explored

MaxCalls == 2    \* invocations of addFrontMatter on the same arguments

----------------------------------------------------------------------------
(* Text literals of the three templates.                                   *)

NL == <<"\n">>

Dashes == <<"-", "-", "-">>

TitleKey == <<"t", "i", "t", "l", "e", ":", " ">>

DescriptionApiKey == <<"d", "e", "s", "c", "r", "i", "p", "t", "i", "o", "n", ":", " ", "A", "P", "I", " ", "r", "e", "f", "e", "r", "e", "n", "c", "e", " ", "f", "o", "r", " ">>

TocMinLine == <<"i", "n", "_", "p", "a", "g", "e", "_", "t", "o", "c", "_", "m", "i", "n", "_", "h", "e", "a", "d", "i", "n", "g", "_", "l", "e", "v", "e", "l", ":", " ", "1">>

ApiTypeKey == <<"p", "y", "t", "h", "o", "n", "_", "a", "p", "i", "_", "t", "y", "p", "e", ":", " ">>

ApiNameKey == <<"p", "y", "t", "h", "o", "n", "_", "a", "p", "i", "_", "n", "a", "m", "e", ":", " ">>

ReleaseNotesSuffix == <<" ", "r", "e", "l", "e", "a", "s", "e", " ", "n", "o", "t", "e", "s">>

DescriptionChangesKey == <<"d", "e", "s", "c", "r", "i", "p", "t", "i", "o", "n", ":", " ", "C", "h", "a", "n", "g", "e", "s", " ", "m", "a", "d", "e", " ">>

InWord == <<"i", "n", " ">>

ToWord == <<"t", "o", " ">>

TocMaxLine == <<"i", "n", "_", "p", "a", "g", "e", "_", "t", "o", "c", "_", "m", "a", "x", "_", "h", "e", "a", "d", "i", "n", "g", "_", "l", "e", "v", "e", "l", ":", " ", "2">>

----------------------------------------------------------------------------
(* JavaScript values.                                                      *)

\* The value `undefined` of an absent optional field.  It is a sequence
\* whose only element is not a character, so it differs from every string.
undefined == <<"<undefined>">>

UndefinedText == <<"u", "n", "d", "e", "f", "i", "n", "e", "d">>

\* Variant: the test is for definedness (`v !== undefined`).
TruthyWhenDefined(v) == v # undefined

\* Truthiness of a string-or-undefined value, as tested by `if (v)`.
Truthy(v) == v # undefined /\ v # <<>>

\* `${v}` inside a template literal.
Interpolate(v) == IF v = undefined THEN UndefinedText ELSE v

----------------------------------------------------------------------------
(* Helpers on texts.                                                       *)

IsPrefix(p, s) == Len(p) <= Len(s) /\ SubSeq(s, 1, Len(p)) = p

IsSuffix(p, s) == Len(p) <= Len(s) /\ SubSeq(s, Len(s) - Len(p) + 1, Len(s)) = p

Contains(s, sub) ==
  \E k \in 0..(Len(s) - Len(sub)) : SubSeq(s, k + 1, k + Len(sub)) = sub

\* Lines of a text: a text with k line feeds has k + 1 lines, the n-th line
\* being what stands between the (n-1)-th and the n-th line feed.

\* Positions of the line feeds of s.
Feeds(s) == {k \in 1..Len(s) : s[k] = "\n"}

\* Position of the first line feed of s at or after position k (Len(s) + 1
\* when there is none).
RECURSIVE NextFeed(_, _)
NextFeed(s, k) ==
  IF k > Len(s) THEN Len(s) + 1
  ELSE IF s[k] = "\n" THEN k
  ELSE NextFeed(s, k + 1)

RECURSIVE LineStart(_, _)
LineStart(s, n) == IF n = 1 THEN 1 ELSE NextFeed(s, LineStart(s, n - 1)) + 1

LineEnd(s, n) == NextFeed(s, LineStart(s, n)) - 1

NumLines(s) == Cardinality(Feeds(s)) + 1

Line(s, n) == SubSeq(s, LineStart(s, n), LineEnd(s, n))

----------------------------------------------------------------------------
(* stringUtils.getLastPartFromFullIdentifier: the last dot-delimited       *)
(* segment of a fully qualified name.                                      *)

getLastPartFromFullIdentifier(fullIdentifierName) ==
  LET dots == {k \in 1..Len(fullIdentifierName) : fullIdentifierName[k] = "."}
      from == IF dots = {} THEN 1
              ELSE 1 + CHOOSE k \in dots : \A j \in dots : j <= k
  IN  SubSeq(fullIdentifierName, from, Len(fullIdentifierName))

----------------------------------------------------------------------------
(* The three templates (the template literals of the three branches).      *)

\* Variant: the blank line after the closing "---" is left out.
HardcodedTemplateNoBlankLine(meta, md) ==
  Dashes \o NL
  \o Interpolate(meta.hardcodedFrontmatter) \o NL
  \o Dashes \o NL
  \o Interpolate(md) \o NL

HardcodedTemplate(meta, md) ==
  Dashes \o NL
  \o Interpolate(meta.hardcodedFrontmatter) \o NL
  \o Dashes \o NL
  \o NL
  \o Interpolate(md) \o NL

\* Variant: python_api_name is written before python_api_type.
ApiTemplateNameBeforeType(meta, md) ==
  Dashes \o NL
  \o TitleKey \o Interpolate(getLastPartFromFullIdentifier(meta.apiName)) \o NL
  \o DescriptionApiKey \o Interpolate(meta.apiName) \o NL
  \o TocMinLine \o NL
  \o ApiNameKey \o Interpolate(meta.apiName) \o NL
  \o ApiTypeKey \o Interpolate(meta.apiType) \o NL
  \o Dashes \o NL
  \o NL
  \o Interpolate(md) \o NL

\* Variant: the title is the full apiName.
ApiTemplateFullTitle(meta, md) ==
  Dashes \o NL
  \o TitleKey \o Interpolate(meta.apiName) \o NL
  \o DescriptionApiKey \o Interpolate(meta.apiName) \o NL
  \o TocMinLine \o NL
  \o ApiTypeKey \o Interpolate(meta.apiType) \o NL
  \o ApiNameKey \o Interpolate(meta.apiName) \o NL
  \o Dashes \o NL
  \o NL
  \o Interpolate(md) \o NL

\* Variant: the python_api_type line is left out when apiType is absent.
ApiTemplateOmitsAbsentType(meta, md) ==
  Dashes \o NL
  \o TitleKey \o Interpolate(getLastPartFromFullIdentifier(meta.apiName)) \o NL
  \o DescriptionApiKey \o Interpolate(meta.apiName) \o NL
  \o TocMinLine \o NL
  \o (IF meta.apiType = undefined THEN <<>>
      ELSE ApiTypeKey \o Interpolate(meta.apiType) \o NL)
  \o ApiNameKey \o Interpolate(meta.apiName) \o NL
  \o Dashes \o NL
  \o NL
  \o Interpolate(md) \o NL

\* Variant: no line feed after the former text.
ApiTemplateNoFinalFeed(meta, md) ==
  Dashes \o NL
  \o TitleKey \o Interpolate(getLastPartFromFullIdentifier(meta.apiName)) \o NL
  \o DescriptionApiKey \o Interpolate(meta.apiName) \o NL
  \o TocMinLine \o NL
  \o ApiTypeKey \o Interpolate(meta.apiType) \o NL
  \o ApiNameKey \o Interpolate(meta.apiName) \o NL
  \o Dashes \o NL
  \o NL
  \o Interpolate(md)

ApiTemplate(meta, md) ==
  Dashes \o NL
  \o TitleKey \o Interpolate(getLastPartFromFullIdentifier(meta.apiName)) \o NL
  \o DescriptionApiKey \o Interpolate(meta.apiName) \o NL
  \o TocMinLine \o NL
  \o ApiTypeKey \o Interpolate(meta.apiType) \o NL
  \o ApiNameKey \o Interpolate(meta.apiName) \o NL
  \o Dashes \o NL
  \o NL
  \o Interpolate(md) \o NL

\* Variant: no space before the version.
versionStrNoSpace(p) ==
  IF p.hasSeparateReleaseNotes THEN Interpolate(p.versionWithoutPatch)
  ELSE <<>>

\* Variant: the version is written whether or not release notes are separate.
versionStrAlways(p) == <<" ">> \o Interpolate(p.versionWithoutPatch)

versionStr(p) ==
  IF p.hasSeparateReleaseNotes THEN <<" ">> \o Interpolate(p.versionWithoutPatch)
  ELSE <<>>

descriptionSuffix(p) ==
  IF p.hasSeparateReleaseNotes
  THEN InWord \o Interpolate(p.title) \o Interpolate(versionStr(p))
  ELSE ToWord \o Interpolate(p.title)

\* Variant: the closing "---" line is left out.
ReleaseNotesTemplateUnclosed(p, md) ==
  Dashes \o NL
  \o TitleKey \o Interpolate(p.title) \o Interpolate(versionStr(p)) \o ReleaseNotesSuffix \o NL
  \o DescriptionChangesKey \o Interpolate(descriptionSuffix(p)) \o NL
  \o TocMaxLine \o NL
  \o NL
  \o Interpolate(md) \o NL

ReleaseNotesTemplate(p, md) ==
  Dashes \o NL
  \o TitleKey \o Interpolate(p.title) \o Interpolate(versionStr(p)) \o ReleaseNotesSuffix \o NL
  \o DescriptionChangesKey \o Interpolate(descriptionSuffix(p)) \o NL
  \o TocMaxLine \o NL
  \o Dashes \o NL
  \o NL
  \o Interpolate(md) \o NL

----------------------------------------------------------------------------
(* The if / else-if chain: which branch a page takes.                      *)

\* Variant: the release-notes test comes first.
RuleReleaseNotesFirst(page) ==
  IF page.isReleaseNotes THEN "releaseNotes"
  ELSE IF Truthy(page.meta.hardcodedFrontmatter) THEN "hardcoded"
  ELSE IF Truthy(page.meta.apiName) THEN "api"
  ELSE "none"

\* Variant: the apiName test comes before the hardcodedFrontmatter test.
RuleApiFirst(page) ==
  IF Truthy(page.meta.apiName) THEN "api"
  ELSE IF Truthy(page.meta.hardcodedFrontmatter) THEN "hardcoded"
  ELSE IF page.isReleaseNotes THEN "releaseNotes"
  ELSE "none"

\* Variant: the release-notes test comes before the apiName test.
RuleReleaseNotesBeforeApi(page) ==
  IF Truthy(page.meta.hardcodedFrontmatter) THEN "hardcoded"
  ELSE IF page.isReleaseNotes THEN "releaseNotes"
  ELSE IF Truthy(page.meta.apiName) THEN "api"
  ELSE "none"

\* Variant: a page with both hardcodedFrontmatter and apiName is refused.
RuleRefusesAmbiguous(page) ==
  IF Truthy(page.meta.hardcodedFrontmatter) /\ Truthy(page.meta.apiName) THEN "invalid"
  ELSE IF Truthy(page.meta.hardcodedFrontmatter) THEN "hardcoded"
  ELSE IF Truthy(page.meta.apiName) THEN "api"
  ELSE IF page.isReleaseNotes THEN "releaseNotes"
  ELSE "none"

Rule(page) ==
  IF Truthy(page.meta.hardcodedFrontmatter) THEN "hardcoded"
  ELSE IF Truthy(page.meta.apiName) THEN "api"
  ELSE IF page.isReleaseNotes THEN "releaseNotes"
  ELSE "none"

\* Variant: a page that matches no rule gets a line feed appended.
AnnotatedFeedAlways(page, p) ==
  CASE Rule(page) = "hardcoded"    -> HardcodedTemplate(page.meta, page.markdown)
    [] Rule(page) = "api"          -> ApiTemplate(page.meta, page.markdown)
    [] Rule(page) = "releaseNotes" -> ReleaseNotesTemplate(p, page.markdown)
    [] OTHER                       -> page.markdown \o NL

\* Variant: a text that already begins with a "---" line is left alone.
AnnotatedOnce(page, p) ==
  IF IsPrefix(Dashes \o NL, page.markdown) THEN page.markdown
  ELSE CASE Rule(page) = "hardcoded"    -> HardcodedTemplate(page.meta, page.markdown)
         [] Rule(page) = "api"          -> ApiTemplate(page.meta, page.markdown)
         [] Rule(page) = "releaseNotes" -> ReleaseNotesTemplate(p, page.markdown)
         [] OTHER                       -> page.markdown

\* Variant: three separate ifs, so that every rule that matches adds its block.
AnnotatedEveryMatch(page, p) ==
  LET a == IF Truthy(page.meta.hardcodedFrontmatter)
           THEN HardcodedTemplate(page.meta, page.markdown) ELSE page.markdown
      b == IF Truthy(page.meta.apiName) THEN ApiTemplate(page.meta, a) ELSE a
  IN  IF page.isReleaseNotes THEN ReleaseNotesTemplate(p, b) ELSE b

\* Variant: the result depends on how many calls were made before.
AnnotatedFirstCallOnly(page, p) ==
  IF calls > 1 THEN page.markdown
  ELSE CASE Rule(page) = "hardcoded"    -> HardcodedTemplate(page.meta, page.markdown)
         [] Rule(page) = "api"          -> ApiTemplate(page.meta, page.markdown)
         [] Rule(page) = "releaseNotes" -> ReleaseNotesTemplate(p, page.markdown)
         [] OTHER                       -> page.markdown

\* Variant: the API block takes its python_api_type from the package title.
AnnotatedApiFromPackage(page, p) ==
  CASE Rule(page) = "hardcoded"    -> HardcodedTemplate(page.meta, page.markdown)
    [] Rule(page) = "api"          -> ApiTemplate([page.meta EXCEPT !.apiType = p.title],
                                                  page.markdown)
    [] Rule(page) = "releaseNotes" -> ReleaseNotesTemplate(p, page.markdown)
    [] OTHER                       -> page.markdown

\* The markdown one loop iteration leaves in a page.
Annotated(page, p) ==
  CASE Rule(page) = "hardcoded"    -> HardcodedTemplate(page.meta, page.markdown)
    [] Rule(page) = "api"          -> ApiTemplate(page.meta, page.markdown)
    [] Rule(page) = "releaseNotes" -> ReleaseNotesTemplate(p, page.markdown)
    [] OTHER                       -> page.markdown

----------------------------------------------------------------------------
(* Inputs.                                                                 *)

Bodies == { <<>>,
            <<"#", " ", "H", "i">>,
            <<"i", "n", "t", "r", "o", "\n">> }

HardcodedValues == { undefined,
                     <<>>,
                     <<"l", "a", "y", "o", "u", "t", ":", " ", "h", "o", "m", "e">>,
                     <<"t", "i", "t", "l", "e", ":", " ", "T", "\n", "k", "i", "n", "d", ":", " ", "x">> }

ApiNames == { undefined,
              <<>>,
              <<"T", "h", "i", "n", "g">>,
              <<"p", "k", "g", ".", "m", "o", "d", ".", "T", "h", "i", "n", "g">> }

ApiTypes == { undefined,
              <<"c", "l", "a", "s", "s">>,
              <<"m", "o", "d", "u", "l", "e">> }

Titles == { <<"Q", "i", "s", "k", "i", "t">>,
            <<"R", "u", "n", "t", "i", "m", "e">> }

Versions == { <<"0", ".", "4", "5">>, <<"1", ".", "0">> }

Metas == [hardcodedFrontmatter : HardcodedValues, apiName : ApiNames, apiType : ApiTypes]

Pages == [markdown : Bodies, meta : Metas, isReleaseNotes : BOOLEAN]

Pkgs == [title : Titles, versionWithoutPatch : Versions, hasSeparateReleaseNotes : BOOLEAN]

\* Pages used when the array has more than one position: one body,
\* each field either absent or set, apiType present exactly with apiName.
SeqPages ==
  { p \in Pages :
      /\ p.markdown = <<"#", " ", "H", "i">>
      /\ p.meta.hardcodedFrontmatter \in {undefined, <<"l", "a", "y", "o", "u", "t", ":", " ", "h", "o", "m", "e">>}
      /\ p.meta.apiName \in {undefined, <<"p", "k", "g", ".", "m", "o", "d", ".", "T", "h", "i", "n", "g">>}
      /\ p.meta.apiType = (IF p.meta.apiName = undefined THEN undefined ELSE <<"c", "l", "a", "s", "s">>) }

\* Number of distinct objects an array refers to, references being numbered
\* in order of first occurrence.
NumObjects(s) == Cardinality({s[k] : k \in 1..Len(s)})

FirstOccurrenceOrder(s) ==
  \A k \in 1..Len(s) : s[k] <= 1 + Cardinality({s[j] : j \in 1..(k - 1)})

Arrays ==
  UNION { {s \in [1..n -> 1..n] : FirstOccurrenceOrder(s)} : n \in 0..MaxLen }

----------------------------------------------------------------------------
(* State machine.                                                          *)

Init ==
  /\ results \in Arrays
  /\ pkg \in Pkgs
  /\ heap \in [1..NumObjects(results) ->
                 IF Len(results) <= 1 THEN Pages ELSE SeqPages]
  /\ idx = 1
  /\ result = 0
  /\ markdown = <<>>
  /\ pc = "loop"
  /\ calls = 1
  /\ initial = heap
  /\ workers = <<>>

\* The page the iterator is about to yield.
Current == heap[results[idx]]

\* Variant: the visit clears the package's version once it has been used.
VisitClearsVersion ==
  /\ result' = results[idx]
  /\ markdown' = Current.markdown
  /\ heap' = [heap EXCEPT ![results[idx]].markdown = Annotated(Current, pkg)]
  /\ idx' = idx + 1
  /\ pkg' = [pkg EXCEPT !.versionWithoutPatch = <<>>]
  /\ UNCHANGED <<results, pc, calls, initial, workers>>

\* Variant: the visit removes hardcodedFrontmatter from the page's meta.
VisitConsumesMeta ==
  /\ result' = results[idx]
  /\ markdown' = Current.markdown
  /\ heap' = [heap EXCEPT ![results[idx]].markdown = Annotated(Current, pkg),
                          ![results[idx]].meta.hardcodedFrontmatter = undefined]
  /\ idx' = idx + 1
  /\ UNCHANGED <<results, pkg, pc, calls, initial, workers>>

\* Variant: the array is walked from its last element to its first.
VisitBackwards ==
  /\ result' = results[Len(results) + 1 - idx]
  /\ markdown' = heap[results[Len(results) + 1 - idx]].markdown
  /\ heap' = [heap EXCEPT ![results[Len(results) + 1 - idx]].markdown =
                Annotated(heap[results[Len(results) + 1 - idx]], pkg)]
  /\ idx' = idx + 1
  /\ UNCHANGED <<results, pkg, pc, calls, initial, workers>>

\* Variant: the new text is built on the text of the page visited before.
VisitUsesPreviousText ==
  /\ result' = results[idx]
  /\ markdown' = (IF result = 0 THEN Current.markdown ELSE heap[result].markdown)
  /\ heap' = [heap EXCEPT ![results[idx]].markdown =
                Annotated([Current EXCEPT !.markdown =
                             IF result = 0 THEN Current.markdown ELSE heap[result].markdown],
                          pkg)]
  /\ idx' = idx + 1
  /\ UNCHANGED <<results, pkg, pc, calls, initial, workers>>

\* Variant: an object met at an earlier position of the array is skipped.
VisitSkipsRepeated ==
  /\ result' = results[idx]
  /\ markdown' = Current.markdown
  /\ heap' = IF \E k \in 1..(idx - 1) : results[k] = results[idx]
             THEN heap
             ELSE [heap EXCEPT ![results[idx]].markdown = Annotated(Current, pkg)]
  /\ idx' = idx + 1
  /\ UNCHANGED <<results, pkg, pc, calls, initial, workers>>

\* One iteration of the for-of loop on the page results[idx]: the local
\* `markdown` takes the page's text, and the page's text is rewritten.
Visit ==
  /\ result' = results[idx]
  /\ markdown' = Current.markdown
  /\ heap' = [heap EXCEPT ![results[idx]].markdown = Annotated(Current, pkg)]
  /\ idx' = idx + 1
  /\ UNCHANGED <<results, pkg, pc, calls, initial, workers>>

Hardcoded ==
  /\ pc = "loop"
  /\ idx <= Len(results)
  /\ Rule(Current) = "hardcoded"
  /\ Visit

ApiSymbol ==
  /\ pc = "loop"
  /\ idx <= Len(results)
  /\ Rule(Current) = "api"
  /\ Visit

ReleaseNotes ==
  /\ pc = "loop"
  /\ idx <= Len(results)
  /\ Rule(Current) = "releaseNotes"
  /\ Visit

NoMatch ==
  /\ pc = "loop"
  /\ idx <= Len(results)
  /\ Rule(Current) = "none"
  /\ Visit

\* Variant: the function may return once the first page has been visited.
ReturnAfterFirstPage ==
  /\ pc = "loop"
  /\ idx > (IF Len(results) = 0 THEN 0 ELSE 1)
  /\ pc' = "done"
  /\ UNCHANGED <<results, pkg, heap, idx, result, markdown, calls, initial, workers>>

\* The iterator is exhausted: the function returns.
Return ==
  /\ pc = "loop"
  /\ idx > Len(results)
  /\ pc' = "done"
  /\ UNCHANGED <<results, pkg, heap, idx, result, markdown, calls, initial, workers>>

\* The caller invokes addFrontMatter again on the same array and package.
Invoke ==
  /\ pc = "done"
  /\ calls < MaxCalls
  /\ calls' = calls + 1
  /\ idx' = 1
  /\ result' = 0
  /\ markdown' = <<>>
  /\ pc' = "loop"
  /\ UNCHANGED <<results, pkg, heap, initial, workers>>

Next == Hardcoded \/ ApiSymbol \/ ReleaseNotes \/ NoMatch \/ Return \/ Invoke

Spec == Init /\ [][Next]_vars

\* A call runs to its end: the loop is synchronous, so a step of the call
\* that can be taken is taken.  Whether the caller calls again is up to it.
Step == Hardcoded \/ ApiSymbol \/ ReleaseNotes \/ NoMatch \/ Return

SpecLive == Init /\ [][Next]_vars /\ WF_vars(Step)

----------------------------------------------------------------------------
(* The whole function as one operator: the page objects after the first n  *)
(* positions of the array rs have been visited, starting from objects h.   *)

RECURSIVE PassPrefix(_, _, _, _)
PassPrefix(h, rs, p, n) ==
  IF n = 0 THEN h
  ELSE LET g == PassPrefix(h, rs, p, n - 1)
       IN  [g EXCEPT ![rs[n]].markdown = Annotated(g[rs[n]], p)]

addFrontMatter(h, rs, p) == PassPrefix(h, rs, p, Len(rs))

----------------------------------------------------------------------------
(* Callers that split the array among workers.  Each worker runs the       *)
(* function on its part of the array, with the same package; the parts     *)
(* share no page object.  A worker's loop iteration is two steps, the read *)
(* of result.markdown into the local and the assignment of the new text,   *)
(* so that the steps of the workers interleave at every point.             *)

Workers == {"w1", "w2"}

\* The references at the positions of results that owner gives to worker w,
\* among the first n positions, in array order.
RECURSIVE PartOf(_, _, _)
PartOf(owner, w, n) ==
  IF n = 0 THEN <<>>
  ELSE IF owner[n] = w THEN Append(PartOf(owner, w, n - 1), results[n])
       ELSE PartOf(owner, w, n - 1)

InitPar ==
  /\ results \in Arrays
  /\ pkg \in Pkgs
  /\ heap \in [1..NumObjects(results) -> SeqPages]
  /\ idx = 1
  /\ result = 0
  /\ markdown = <<>>
  /\ pc = "split"
  /\ calls = 1
  /\ initial = heap
  /\ \E owner \in [1..Len(results) -> Workers] :
       /\ \A i, j \in 1..Len(results) : results[i] = results[j] => owner[i] = owner[j]
       /\ workers = [w \in Workers |->
                       [part |-> PartOf(owner, w, Len(results)),
                        idx |-> 1, result |-> 0, markdown |-> <<>>, pc |-> "read"]]

\* Variant: the worker takes its pages from the whole array, not from its part.
WReadWholeArray(w) ==
  /\ workers[w].pc = "read"
  /\ workers[w].idx <= Len(workers[w].part)
  /\ workers' = [workers EXCEPT ![w].result = results[workers[w].idx],
                                ![w].markdown = heap[results[workers[w].idx]].markdown,
                                ![w].pc = "write"]
  /\ UNCHANGED <<results, pkg, heap, idx, result, markdown, pc, calls, initial>>

\* for (let result of results) { let markdown = result.markdown;
WRead(w) ==
  /\ workers[w].pc = "read"
  /\ workers[w].idx <= Len(workers[w].part)
  /\ workers' = [workers EXCEPT ![w].result = workers[w].part[workers[w].idx],
                                ![w].markdown = heap[workers[w].part[workers[w].idx]].markdown,
                                ![w].pc = "write"]
  /\ UNCHANGED <<results, pkg, heap, idx, result, markdown, pc, calls, initial>>

\* The if / else-if chain and the assignment to result.markdown, from the
\* local markdown.
WWrite(w) ==
  /\ workers[w].pc = "write"
  /\ heap' = [heap EXCEPT ![workers[w].result].markdown =
                Annotated([heap[workers[w].result] EXCEPT !.markdown = workers[w].markdown], pkg)]
  /\ workers' = [workers EXCEPT ![w].idx = workers[w].idx + 1, ![w].pc = "read"]
  /\ UNCHANGED <<results, pkg, idx, result, markdown, pc, calls, initial>>

\* The worker's iterator is exhausted: its call returns.
WReturn(w) ==
  /\ workers[w].pc = "read"
  /\ workers[w].idx > Len(workers[w].part)
  /\ workers' = [workers EXCEPT ![w].pc = "done"]
  /\ UNCHANGED <<results, pkg, heap, idx, result, markdown, pc, calls, initial>>

NextPar == \E w \in Workers : WRead(w) \/ WWrite(w) \/ WReturn(w)

SpecPar == InitPar /\ [][NextPar]_vars

TypeOK ==
  /\ pc \in {"loop", "done"}
  /\ idx \in 1..(Len(results) + 1)
  /\ calls \in 1..MaxCalls
  /\ result \in 0..NumObjects(results)
  /\ pkg \in Pkgs

----------------------------------------------------------------------------
(* Vocabulary of the properties.  They speak of the page visited by the    *)
(* last loop iteration: `result` refers to it, `markdown` is its text      *)
(* before the iteration and heap[result].markdown its text after.          *)

Visited == result # 0

Body == heap[result].markdown

Meta == heap[result].meta

\* A field that is set to a non-empty text.
Present(v) == v # undefined /\ Len(v) > 0

\* The page as it was when the iteration began.
Before == [heap[result] EXCEPT !.markdown = markdown]

\* The text the iteration put in front of the former text and its
\* appended line feed.
Header == SubSeq(Body, 1, Len(Body) - Len(markdown) - 1)

IsHardcodedPage == Visited /\ Present(Meta.hardcodedFrontmatter)

IsApiPage == Visited /\ ~Present(Meta.hardcodedFrontmatter) /\ Present(Meta.apiName)

IsReleaseNotesPage ==
  /\ Visited
  /\ ~Present(Meta.hardcodedFrontmatter)
  /\ ~Present(Meta.apiName)
  /\ heap[result].isReleaseNotes

IsUnmatchedPage ==
  /\ Visited
  /\ ~Present(Meta.hardcodedFrontmatter)
  /\ ~Present(Meta.apiName)
  /\ ~heap[result].isReleaseNotes

\* t is the last dot-delimited segment of name.
LastSegmentOf(t, name) ==
  /\ \A k \in 1..Len(t) : t[k] # "."
  /\ \/ t = name
     \/ IsSuffix(<<".">> \o t, name)

----------------------------------------------------------------------------
\* C1 (as stated): after a page with hardcodedFrontmatter set has been
\* visited, its text is exactly "---\n" + hardcodedFrontmatter + "\n---\n\n"
\* + the former text, with nothing after it.
C1_Original ==
  IsHardcodedPage =>
    Body = Dashes \o NL \o Meta.hardcodedFrontmatter \o NL \o Dashes \o NL \o NL
           \o markdown

\* C1 (amended): after a page with a non-empty hardcodedFrontmatter has been
\* visited, its text is exactly "---\n" + hardcodedFrontmatter + "\n---\n\n"
\* + the former text + "\n", whatever apiName, apiType, isReleaseNotes and
\* the package are.
C1_HardcodedBody ==
  IsHardcodedPage =>
    Body = Dashes \o NL \o Meta.hardcodedFrontmatter \o NL \o Dashes \o NL \o NL
           \o markdown \o NL

\* A hardcoded page that also names an API symbol and is flagged as release
\* notes has been visited.
C1_Witness ==
  /\ IsHardcodedPage
  /\ Present(Meta.apiName)
  /\ heap[result].isReleaseNotes
  /\ Len(markdown) > 0

----------------------------------------------------------------------------
\* C2: after a page without hardcodedFrontmatter and with apiName and
\* apiType set has been visited, its text starts with the five-key block
\* (title, description, in_page_toc_min_heading_level, python_api_type,
\* python_api_name, in this order, apiType and apiName verbatim) between two
\* "---" lines, then a blank line, then the former text.
C2_ApiBlock ==
  (IsApiPage /\ Present(Meta.apiType)) =>
    IsPrefix(Dashes \o NL
             \o TitleKey \o getLastPartFromFullIdentifier(Meta.apiName) \o NL
             \o DescriptionApiKey \o Meta.apiName \o NL
             \o TocMinLine \o NL
             \o ApiTypeKey \o Meta.apiType \o NL
             \o ApiNameKey \o Meta.apiName \o NL
             \o Dashes \o NL
             \o NL
             \o markdown,
             Body)

\* An API page of kind "class" with a non-empty text has been visited.
C2_Witness ==
  /\ IsApiPage
  /\ Meta.apiType = <<"c", "l", "a", "s", "s">>
  /\ markdown = <<"#", " ", "H", "i">>

----------------------------------------------------------------------------
\* C3: on an API page the title line carries the last dot-delimited segment
\* of apiName (all of apiName when it has no dot), while the description
\* and python_api_name lines carry the full apiName.
C3_TitleIsLastSegment ==
  IsApiPage =>
    /\ IsPrefix(TitleKey, Line(Body, 2))
    /\ LastSegmentOf(SubSeq(Line(Body, 2), Len(TitleKey) + 1, Len(Line(Body, 2))),
                     Meta.apiName)
    /\ Line(Body, 3) = DescriptionApiKey \o Meta.apiName
    /\ Line(Body, 6) = ApiNameKey \o Meta.apiName

\* The page of "pkg.mod.Thing" has been visited and is titled "Thing".
C3_Witness ==
  /\ IsApiPage
  /\ Meta.apiName = <<"p", "k", "g", ".", "m", "o", "d", ".", "T", "h", "i", "n", "g">>
  /\ Line(Body, 2) = TitleKey \o <<"T", "h", "i", "n", "g">>
  /\ Line(Body, 6) = ApiNameKey \o <<"p", "k", "g", ".", "m", "o", "d", ".", "T", "h", "i", "n", "g">>

----------------------------------------------------------------------------
\* C4: on a release-notes page of a package with separate release notes the
\* header is the three lines "title: <title> <version> release notes",
\* "description: Changes made in <title> <version>" and
\* "in_page_toc_max_heading_level: 2", in this order, between two "---"
\* lines.
C4_SeparateReleaseNotes ==
  (IsReleaseNotesPage /\ pkg.hasSeparateReleaseNotes) =>
    /\ Line(Body, 1) = Dashes
    /\ Line(Body, 2) = TitleKey \o pkg.title \o <<" ">> \o pkg.versionWithoutPatch
                       \o ReleaseNotesSuffix
    /\ Line(Body, 3) = DescriptionChangesKey \o InWord \o pkg.title \o <<" ">>
                       \o pkg.versionWithoutPatch
    /\ Line(Body, 4) = TocMaxLine
    /\ Line(Body, 5) = Dashes
    /\ Line(Body, 6) = <<>>

\* A release-notes page of Qiskit 0.45 has been visited and is titled
\* "Qiskit 0.45 release notes".
C4_Witness ==
  /\ IsReleaseNotesPage
  /\ pkg.hasSeparateReleaseNotes
  /\ Line(Body, 2) = <<"t", "i", "t", "l", "e", ":", " ", "Q", "i", "s", "k", "i", "t", " ", "0", ".", "4", "5", " ", "r", "e", "l", "e", "a", "s", "e", " ", "n", "o", "t", "e", "s">>
  /\ Line(Body, 3) = <<"d", "e", "s", "c", "r", "i", "p", "t", "i", "o", "n", ":", " ", "C", "h", "a", "n", "g", "e", "s", " ", "m", "a", "d", "e", " ", "i", "n", " ", "Q", "i", "s", "k", "i", "t", " ", "0", ".", "4", "5">>

----------------------------------------------------------------------------
\* C5: on a release-notes page of a package without separate release notes
\* the title is "<title> release notes" and the description "Changes made
\* to <title>", and the text is the same for every versionWithoutPatch.
C5_AggregatedReleaseNotes ==
  (IsReleaseNotesPage /\ ~pkg.hasSeparateReleaseNotes) =>
    /\ Line(Body, 2) = TitleKey \o pkg.title \o ReleaseNotesSuffix
    /\ Line(Body, 3) = DescriptionChangesKey \o ToWord \o pkg.title
    /\ \A v \in Versions :
         Annotated(Before, [pkg EXCEPT !.versionWithoutPatch = v]) = Body

\* A release-notes page of a package without separate release notes has
\* been visited.
C5_Witness ==
  /\ IsReleaseNotesPage
  /\ ~pkg.hasSeparateReleaseNotes
  /\ Line(Body, 2) = <<"t", "i", "t", "l", "e", ":", " ", "Q", "i", "s", "k", "i", "t", " ", "r", "e", "l", "e", "a", "s", "e", " ", "n", "o", "t", "e", "s">>

----------------------------------------------------------------------------
\* C6: a visited page with no hardcodedFrontmatter, no apiName and
\* isReleaseNotes false has exactly the text it had before, whatever the
\* package is, and the call goes on normally.
C6_Passthrough ==
  IsUnmatchedPage =>
    /\ Body = markdown
    /\ pc \in {"loop", "done"}
    /\ idx > 1

\* An unmatched page with a non-empty text has been visited, in a package
\* with separate release notes.
C6_Witness ==
  /\ IsUnmatchedPage
  /\ Len(markdown) > 0
  /\ pkg.hasSeparateReleaseNotes

----------------------------------------------------------------------------
\* C7: a visited page with hardcodedFrontmatter set and isReleaseNotes true
\* carries the hardcoded header, and its header holds none of the
\* release-notes lines made from the package.
C7_HardcodedOverReleaseNotes ==
  (IsHardcodedPage /\ heap[result].isReleaseNotes) =>
    /\ Header = Dashes \o NL \o Meta.hardcodedFrontmatter \o NL \o Dashes \o NL \o NL
    /\ ~Contains(Header, TitleKey \o pkg.title)
    /\ ~Contains(Header, ReleaseNotesSuffix \o NL)
    /\ ~Contains(Header, DescriptionChangesKey)
    /\ ~Contains(Header, TocMaxLine)

\* A hardcoded page flagged as release notes, naming no API symbol, has been
\* visited.
C7_Witness ==
  /\ IsHardcodedPage
  /\ heap[result].isReleaseNotes
  /\ ~Present(Meta.apiName)

----------------------------------------------------------------------------
\* C8: a visited page with both hardcodedFrontmatter and apiName set is not
\* rejected: it carries the hardcoded header, and none of the five API
\* lines is made.
C8_HardcodedOverApi ==
  (IsHardcodedPage /\ Present(Meta.apiName)) =>
    /\ pc \in {"loop", "done"}
    /\ Header = Dashes \o NL \o Meta.hardcodedFrontmatter \o NL \o Dashes \o NL \o NL
    /\ ~Contains(Header, TitleKey \o getLastPartFromFullIdentifier(Meta.apiName) \o NL)
    /\ ~Contains(Header, DescriptionApiKey)
    /\ ~Contains(Header, TocMinLine)
    /\ ~Contains(Header, ApiTypeKey)
    /\ ~Contains(Header, ApiNameKey)

\* A page with both hardcodedFrontmatter and apiName set, not flagged as
\* release notes, has been visited.
C8_Witness ==
  /\ IsHardcodedPage
  /\ Present(Meta.apiName)
  /\ Present(Meta.apiType)
  /\ ~heap[result].isReleaseNotes

----------------------------------------------------------------------------
\* C9: a visited page with apiName set, no hardcodedFrontmatter and
\* isReleaseNotes true carries the five-key API header, and its text is the
\* same for every package.
C9_ApiOverReleaseNotes ==
  (IsApiPage /\ heap[result].isReleaseNotes) =>
    /\ Line(Body, 1) = Dashes
    /\ IsPrefix(TitleKey, Line(Body, 2))
    /\ Line(Body, 3) = DescriptionApiKey \o Meta.apiName
    /\ Line(Body, 4) = TocMinLine
    /\ IsPrefix(ApiTypeKey, Line(Body, 5))
    /\ Line(Body, 6) = ApiNameKey \o Meta.apiName
    /\ Line(Body, 7) = Dashes
    /\ ~Contains(Header, TocMaxLine)
    /\ \A q \in Pkgs : Annotated(Before, q) = Body

\* An API page flagged as release notes has been visited.
C9_Witness ==
  /\ IsApiPage
  /\ heap[result].isReleaseNotes
  /\ Present(Meta.apiType)
  /\ Len(markdown) > 0

----------------------------------------------------------------------------
\* C10 (as stated): the text of a visited page that matches a rule is
\* header + "\n\n" + former text, the header beginning with a "---" line and
\* ending with a "---" line, so that the former text is the exact tail.
C10_Original ==
  (IsHardcodedPage \/ IsApiPage \/ IsReleaseNotesPage) =>
    LET h == Len(Body) - Len(markdown) - 2
    IN  /\ h >= 0
        /\ SubSeq(Body, h + 1, Len(Body)) = NL \o NL \o markdown
        /\ IsPrefix(Dashes \o NL, SubSeq(Body, 1, h))
        /\ IsSuffix(NL \o Dashes, SubSeq(Body, 1, h))

\* C10 (amended): the text of a visited page that matches a rule is
\* header + "\n\n" + former text + "\n", the header beginning with a "---"
\* line and ending with a "---" line: the former text is kept unmodified,
\* one blank line after the header and one line feed before the end.
C10_HeaderBlankBodyFeed ==
  (IsHardcodedPage \/ IsApiPage \/ IsReleaseNotesPage) =>
    LET h == Len(Body) - Len(markdown) - 3
    IN  /\ h >= 0
        /\ SubSeq(Body, h + 1, Len(Body)) = NL \o NL \o markdown \o NL
        /\ IsPrefix(Dashes \o NL, SubSeq(Body, 1, h))
        /\ IsSuffix(NL \o Dashes, SubSeq(Body, 1, h))

\* A release-notes page with a non-empty text has been visited.
C10_Witness ==
  /\ IsReleaseNotesPage
  /\ markdown = <<"#", " ", "H", "i">>
  /\ IsSuffix(markdown \o NL, Body)

----------------------------------------------------------------------------
(* Vocabulary of the properties about whole calls.                         *)

\* Number of positions among the first n of the array that refer to o.
Occurrences(o, n) == Cardinality({k \in 1..n : results[k] = o})

\* n copies of the text s, one after the other.
RECURSIVE Repeat(_, _)
Repeat(s, n) == IF n = 0 THEN <<>> ELSE s \o Repeat(s, n - 1)

\* The block one visit puts in front of the text of page: what Annotated
\* yields, less the page's text and the line feed after it.
HeaderOf(page, p) ==
  SubSeq(Annotated(page, p), 1, Len(Annotated(page, p)) - Len(page.markdown) - 1)

\* One of the three conditions holds for page.
Matches(page) ==
  \/ Present(page.meta.hardcodedFrontmatter)
  \/ Present(page.meta.apiName)
  \/ page.isReleaseNotes

----------------------------------------------------------------------------
\* C11: addFrontMatter is not idempotent.  Once the k-th call on the same
\* array and package has returned, a page that matches a rule and occurs
\* once in the array carries k copies of its header block in front of its
\* first text (and k line feeds after it); from the second call on this
\* differs from the text one call leaves.
C11_HeadersStack ==
  pc = "done" =>
    \A o \in DOMAIN heap :
      (Occurrences(o, Len(results)) = 1 /\ Matches(initial[o])) =>
        /\ heap[o].markdown = Repeat(HeaderOf(initial[o], pkg), calls)
                              \o initial[o].markdown \o Repeat(NL, calls)
        /\ calls >= 2 => heap[o].markdown # Annotated(initial[o], pkg)

\* The second call on a one-page array whose page matches a rule has
\* returned, and the page's text begins with two header blocks.
C11_Witness ==
  /\ pc = "done"
  /\ calls = 2
  /\ results = <<1>>
  /\ Matches(initial[1])
  /\ IsPrefix(HeaderOf(initial[1], pkg) \o HeaderOf(initial[1], pkg), heap[1].markdown)

----------------------------------------------------------------------------
\* C12: addFrontMatter has no error outcome.  While a call runs, whatever
\* the page at the iterator is (any of its fields absent, empty or set,
\* either flag), one of the four ways through the loop body can be taken, or
\* the loop is over and the function can return; what a visit puts in
\* front of a text holds characters only (an absent field is rendered as
\* text, it never ends up in the page as a value).
C12_NoErrorOutcome ==
  /\ pc \in {"loop", "done"}
  /\ pc = "loop" =>
       \/ ENABLED Hardcoded
       \/ ENABLED ApiSymbol
       \/ ENABLED ReleaseNotes
       \/ ENABLED NoMatch
       \/ ENABLED Return
  /\ Visited =>
       \A k \in 1..(Len(Body) - Len(markdown)) : Body[k] # undefined[1]

\* A call has returned after visiting a page with both hardcodedFrontmatter
\* and apiName set, no apiType, flagged as release notes.
C12_Witness ==
  /\ pc = "done"
  /\ Visited
  /\ Present(Meta.hardcodedFrontmatter)
  /\ Present(Meta.apiName)
  /\ Meta.apiType = undefined
  /\ heap[result].isReleaseNotes

----------------------------------------------------------------------------
\* C13: the package descriptor is read-only: no step of a call changes its
\* title, its versionWithoutPatch or its hasSeparateReleaseNotes.
C13_PkgReadOnly ==
  [][/\ pkg'.title = pkg.title
     /\ pkg'.versionWithoutPatch = pkg.versionWithoutPatch
     /\ pkg'.hasSeparateReleaseNotes = pkg.hasSeparateReleaseNotes]_vars

\* A release-notes page has been visited (so the three fields have been
\* read) in a two-page array, and the call has returned.
C13_Witness ==
  /\ pc = "done"
  /\ Len(results) = 2
  /\ IsReleaseNotesPage
  /\ pkg.hasSeparateReleaseNotes
  /\ Contains(Body, pkg.versionWithoutPatch)

----------------------------------------------------------------------------
\* C14: all a call changes is the text of the pages it annotates.  Every
\* step leaves the array as it is (same length, same objects, same order)
\* and leaves every page's meta and isReleaseNotes as they are; a page whose
\* text changes in a step is the page at the iterator, and it matches a rule.
C14_OnlyBodiesChange ==
  [][/\ results' = results
     /\ DOMAIN heap' = DOMAIN heap
     /\ \A o \in DOMAIN heap :
          /\ heap'[o].meta = heap[o].meta
          /\ heap'[o].isReleaseNotes = heap[o].isReleaseNotes
          /\ heap'[o].markdown # heap[o].markdown =>
               /\ pc = "loop"
               /\ idx <= Len(results)
               /\ o = results[idx]
               /\ Matches(heap[o])]_vars

\* In an array of two distinct pages the first has been visited and its
\* text rewritten, while the second is as it was handed in.
C14_Witness ==
  /\ results = <<1, 2>>
  /\ idx = 2
  /\ result = 1
  /\ heap[1].markdown # initial[1].markdown
  /\ heap[1].meta = initial[1].meta
  /\ heap[2] = initial[2]

----------------------------------------------------------------------------
\* C15: when the array is split into parts that share no page object and
\* each part is handed to its own worker with the same package, then,
\* however the workers' steps interleave, once all workers have returned
\* every page has the text that one sequential pass over the whole array
\* gives it.
C15_ParallelEqualsSequential ==
  (\A w \in DOMAIN workers : workers[w].pc = "done") =>
    \A o \in DOMAIN heap :
      heap[o].markdown = addFrontMatter(initial, results, pkg)[o].markdown

\* Both workers had a page to annotate, both have returned, and both pages
\* carry a header.
C15_Witness ==
  /\ DOMAIN workers = Workers
  /\ \A w \in Workers : workers[w].pc = "done" /\ Len(workers[w].part) >= 1
  /\ \A o \in DOMAIN heap : heap[o].markdown # initial[o].markdown

----------------------------------------------------------------------------
\* C16: one visit gives a page at most one header block, and exactly one
\* when hardcodedFrontmatter is set, apiName is set or isReleaseNotes is
\* true (what it puts in front of the text opens with a "---" line, closes
\* with a "---" line and a blank line, and has no "---" line in between);
\* the page's text changes exactly when one of the three holds, and a
\* changed text is longer than the text before.
C16_OneHeaderPerVisit ==
  Visited =>
    /\ Matches(Before) <=> Body # markdown
    /\ Body # markdown => Len(Body) > Len(markdown)
    /\ ~Matches(Before) => Body = markdown
    /\ Matches(Before) =>
         /\ IsSuffix(markdown \o NL, Body)
         /\ IsPrefix(Dashes \o NL, Header)
         /\ IsSuffix(NL \o Dashes \o NL \o NL, Header)
         /\ ~Contains(SubSeq(Header, Len(Dashes) + 1, Len(Header) - Len(Dashes) - 2),
                      NL \o Dashes \o NL)

\* A page for which all three conditions hold has been visited and carries
\* one header block.
C16_Witness ==
  /\ Visited
  /\ Present(Meta.hardcodedFrontmatter)
  /\ Present(Meta.apiName)
  /\ heap[result].isReleaseNotes
  /\ Len(Body) > Len(markdown)
  /\ Header = Dashes \o NL \o Meta.hardcodedFrontmatter \o NL \o Dashes \o NL \o NL

----------------------------------------------------------------------------
\* The text of page after n visits.
RECURSIVE Stacked(_, _, _)
Stacked(page, p, n) ==
  IF n = 0 THEN page.markdown
  ELSE Annotated([page EXCEPT !.markdown = Stacked(page, p, n - 1)], p)

\* The text object o had when the current call began.
AtEntry(o) == Stacked(initial[o], pkg, (calls - 1) * Occurrences(o, Len(results)))

\* C17: pages are processed in array order.  At every point of a call the
\* positions already visited are the first idx - 1 positions, the last
\* visited page is the one at position idx - 1, every page referred to only
\* from later positions still has the text it had when the call began, and
\* every page has been visited once for each earlier position referring to it.
C17_VisitedIsPrefix ==
  /\ idx \in 1..(Len(results) + 1)
  /\ idx > 1 => result = results[idx - 1]
  /\ \A k \in idx..Len(results) :
       Occurrences(results[k], idx - 1) = 0 =>
         heap[results[k]].markdown = AtEntry(results[k])
  /\ \A o \in DOMAIN heap :
       heap[o].markdown =
         Stacked([initial[o] EXCEPT !.markdown = AtEntry(o)], pkg, Occurrences(o, idx - 1))

\* In the middle of a call on two distinct pages that both match a rule, the
\* first has its header and the second does not yet.
C17_Witness ==
  /\ pc = "loop"
  /\ results = <<1, 2>>
  /\ idx = 2
  /\ Matches(initial[1])
  /\ Matches(initial[2])
  /\ heap[1].markdown # initial[1].markdown
  /\ heap[2].markdown = initial[2].markdown

----------------------------------------------------------------------------
\* Arrays of distinct references to the page objects at hand.
DistinctArrays ==
  UNION { {s \in [1..n -> DOMAIN heap] : \A i, j \in 1..n : s[i] = s[j] => i = j}
          : n \in 0..Cardinality(DOMAIN heap) }

\* C18: per-page independence.  After one call on an array of distinct page
\* objects, the text of each page is what its own text, meta, isReleaseNotes
\* and the package give, whatever the other pages are; and a call on any
\* other array of distinct pages in which the page occurs (at another
\* position, in another order, with fewer pages around it) gives the page
\* the same text.
C18_PerPageIndependence ==
  (pc = "done" /\ calls = 1 /\ NumObjects(results) = Len(results)) =>
    \A o \in DOMAIN heap :
      /\ heap[o].markdown = Annotated(initial[o], pkg)
      /\ \A rs \in DistinctArrays :
           (\E k \in 1..Len(rs) : rs[k] = o) =>
             addFrontMatter(initial, rs, pkg)[o].markdown = heap[o].markdown

\* One call on two distinct pages, of which the first takes the API rule
\* and the second the release-notes rule, has returned.
C18_Witness ==
  /\ pc = "done"
  /\ calls = 1
  /\ results = <<1, 2>>
  /\ Rule(initial[1]) = "api"
  /\ Rule(initial[2]) = "releaseNotes"
  /\ heap[2].markdown = ReleaseNotesTemplate(pkg, initial[2].markdown)

----------------------------------------------------------------------------
\* The page objects after n calls in a row on the array rs with package p.
RECURSIVE Passes(_, _, _, _)
Passes(h, rs, p, n) ==
  IF n = 0 THEN h ELSE addFrontMatter(Passes(h, rs, p, n - 1), rs, p)

\* C19: determinism.  What a call leaves is a function of its arguments
\* alone: when a call has returned, the page objects are those that the
\* pages handed in, the array and the package determine, whichever call it
\* is, with every header line in its fixed place; and during a call they are
\* determined by the same arguments and the position of the iterator.
C19_FunctionOfArguments ==
  /\ pc = "done" => heap = Passes(initial, results, pkg, calls)
  /\ pc = "loop" =>
       heap = PassPrefix(Passes(initial, results, pkg, calls - 1), results, pkg, idx - 1)

\* The second call on two distinct pages has returned, the first page under
\* the API rule and the second under the release-notes rule.
C19_Witness ==
  /\ pc = "done"
  /\ calls = 2
  /\ results = <<1, 2>>
  /\ Rule(initial[1]) = "api"
  /\ Rule(initial[2]) = "releaseNotes"
  /\ Line(heap[1].markdown, 2) = TitleKey \o getLastPartFromFullIdentifier(initial[1].meta.apiName)

----------------------------------------------------------------------------
\* Number of line feeds at the end of the text s (FeedsBefore: of its first
\* k characters).
RECURSIVE FeedsBefore(_, _)
FeedsBefore(s, k) ==
  IF k = 0 THEN 0
  ELSE IF s[k] = "\n" THEN 1 + FeedsBefore(s, k - 1)
  ELSE 0

TrailingFeeds(s) == FeedsBefore(s, Len(s))

HasText(s) == \E k \in 1..Len(s) : s[k] # "\n"

\* C20 (as stated): after a visit under any of the three rules the text is
\* header + "\n\n" + former text + "\n", so that it does not end with the
\* former text's last character.
C20_Original ==
  (Visited /\ Matches(Before)) =>
    /\ IsSuffix(Dashes \o NL \o NL \o markdown \o NL, Body)
    /\ Len(markdown) > 0 => Body[Len(Body)] # markdown[Len(markdown)]

\* C20 (amended): after a visit under any of the three rules the text is
\* header + "\n\n" + former text + "\n".  It ends with a line feed (which is
\* also the former text's last character when that text ended with one),
\* and when the former text holds any character other than a line feed the
\* new text has exactly one more line feed at its end; so does each further
\* call.
C20_FeedAppended ==
  /\ (Visited /\ Matches(Before)) =>
       /\ IsSuffix(Dashes \o NL \o NL \o markdown \o NL, Body)
       /\ Body[Len(Body)] = "\n"
       /\ HasText(markdown) => TrailingFeeds(Body) = TrailingFeeds(markdown) + 1
  /\ pc = "done" =>
       \A o \in DOMAIN heap :
         (Matches(initial[o]) /\ HasText(initial[o].markdown)) =>
           TrailingFeeds(heap[o].markdown)
             = TrailingFeeds(initial[o].markdown) + calls * Occurrences(o, Len(results))

\* A page whose text ended with a line feed has been visited under the API
\* rule, and its text now ends with two line feeds.
C20_Witness ==
  /\ IsApiPage
  /\ markdown = <<"i", "n", "t", "r", "o", "\n">>
  /\ TrailingFeeds(Body) = 2
----------------------------------------------------------------------------
\* C21: presence is tested by truthiness, not by definedness.  A visited
\* page whose hardcodedFrontmatter is the empty string gets no hardcoded
\* header: with an apiName set it gets the API block; a page without
\* hardcoded header whose apiName is the empty string gets the release-notes
\* block when it is a release-notes page; and a page with both fields empty
\* that is no release-notes page keeps its text.
C21_EmptyStringIsAbsent ==
  Visited =>
    /\ (Meta.hardcodedFrontmatter = <<>> /\ Present(Meta.apiName)) =>
         /\ Body = ApiTemplate(Meta, markdown)
         /\ IsPrefix(Dashes \o NL \o TitleKey, Body)
    /\ (~Present(Meta.hardcodedFrontmatter) /\ Meta.apiName = <<>>
          /\ heap[result].isReleaseNotes) =>
         /\ Body = ReleaseNotesTemplate(pkg, markdown)
         /\ IsSuffix(NL \o TocMaxLine \o NL \o Dashes \o NL \o NL \o markdown \o NL, Body)
    /\ (Meta.hardcodedFrontmatter = <<>> /\ Meta.apiName = <<>>
          /\ ~heap[result].isReleaseNotes) =>
         Body = markdown

\* A release-notes page whose hardcodedFrontmatter and apiName are both the
\* empty string has been visited and carries the release-notes block.
C21_Witness ==
  /\ Visited
  /\ Meta.hardcodedFrontmatter = <<>>
  /\ Meta.apiName = <<>>
  /\ heap[result].isReleaseNotes
  /\ Body = ReleaseNotesTemplate(pkg, markdown)
  /\ Len(Body) > Len(markdown)
----------------------------------------------------------------------------
\* C22: the API rule is selected on apiName alone.  A visited page with
\* apiName set, no hardcoded header and apiType absent takes the API path
\* like any other: its text changes, the block has its five keys in their
\* places between the two "---" lines, and the python_api_type line
\* carries the text "undefined".
C22_AbsentTypeRendered ==
  (IsApiPage /\ Meta.apiType = undefined) =>
    /\ Body # markdown
    /\ IsPrefix(Dashes \o NL \o TitleKey, Body)
    /\ IsSuffix(NL \o DescriptionApiKey \o Meta.apiName \o NL
                \o TocMinLine \o NL
                \o ApiTypeKey \o <<"u", "n", "d", "e", "f", "i", "n", "e", "d">> \o NL
                \o ApiNameKey \o Meta.apiName \o NL
                \o Dashes \o NL
                \o NL,
                Header)
    /\ Line(Body, 5) = ApiTypeKey \o UndefinedText
    /\ IsSuffix(markdown \o NL, Body)

\* The page of "Thing", which has no apiType, has been visited and its
\* fifth line reads "python_api_type: undefined".
C22_Witness ==
  /\ IsApiPage
  /\ Meta.apiType = undefined
  /\ Meta.apiName = <<"T", "h", "i", "n", "g">>
  /\ Line(Body, 5) = ApiTypeKey \o UndefinedText
  /\ Line(Body, 6) = ApiNameKey \o Meta.apiName
----------------------------------------------------------------------------
\* C23: aliasing in the array.  When the first call has returned, a page
\* object that matches a rule carries one header block for each position of
\* the array that refers to it, and as many line feeds after its first
\* text; an object at two positions thus begins with two stacked header
\* blocks and differs from what one visit leaves.
C23_AnnotatedPerOccurrence ==
  (pc = "done" /\ calls = 1) =>
    \A o \in DOMAIN heap :
      Matches(initial[o]) =>
        /\ heap[o].markdown =
             Repeat(HeaderOf(initial[o], pkg), Occurrences(o, Len(results)))
             \o initial[o].markdown
             \o Repeat(NL, Occurrences(o, Len(results)))
        /\ Occurrences(o, Len(results)) = 2 =>
             /\ IsPrefix(HeaderOf(initial[o], pkg) \o HeaderOf(initial[o], pkg),
                         heap[o].markdown)
             /\ heap[o].markdown # Annotated(initial[o], pkg)

\* One call on an array whose two positions refer to the same page, which
\* matches a rule, has returned, and the page begins with two header blocks.
C23_Witness ==
  /\ pc = "done"
  /\ calls = 1
  /\ results = <<1, 1>>
  /\ Matches(initial[1])
  /\ Len(HeaderOf(initial[1], pkg)) > 0
  /\ heap[1].markdown = HeaderOf(initial[1], pkg) \o HeaderOf(initial[1], pkg)
                        \o initial[1].markdown \o NL \o NL
----------------------------------------------------------------------------
\* C24: the package descriptor influences only release-notes pages.  The
\* text a visit leaves in a page that takes the hardcoded path, the API path
\* or no path is determined by the page alone, and is the text the visit
\* would have left under any other package descriptor; and when the first
\* call has returned, each such page has the text that the same call with
\* any other package descriptor gives it.
C24_PkgOnlyForReleaseNotes ==
  /\ (IsHardcodedPage \/ IsApiPage \/ IsUnmatchedPage) =>
       /\ Body = (IF IsHardcodedPage THEN HardcodedTemplate(Meta, markdown)
                  ELSE IF IsApiPage THEN ApiTemplate(Meta, markdown)
                  ELSE markdown)
       /\ \A q \in Pkgs : Annotated(Before, q) = Body
  /\ (pc = "done" /\ calls = 1) =>
       \A o \in DOMAIN heap :
         (Present(initial[o].meta.hardcodedFrontmatter)
            \/ Present(initial[o].meta.apiName)
            \/ ~initial[o].isReleaseNotes) =>
           \A q \in Pkgs :
             addFrontMatter(initial, results, q)[o].markdown = heap[o].markdown

\* An API page that is also flagged as release notes has been visited under
\* a package with separate release notes, and another package descriptor
\* would have given a release-notes page another text.
C24_Witness ==
  /\ IsApiPage
  /\ heap[result].isReleaseNotes
  /\ pkg.hasSeparateReleaseNotes
  /\ Body = ApiTemplate(Meta, markdown)
  /\ \E q \in Pkgs :
       /\ q # pkg
       /\ ReleaseNotesTemplate(q, markdown) # ReleaseNotesTemplate(pkg, markdown)
       /\ Annotated(Before, q) = Body
----------------------------------------------------------------------------
\* C25: every call terminates, having visited each position of the array
\* exactly once and in one go.  A running call always reaches its return,
\* with the iterator past the last position; while positions remain, the
\* only step is the visit of the next position, which takes one branch
\* decision and moves the iterator on by one; the function returns only
\* from past the last position, and the return writes nothing; a call on
\* an empty array returns at its first step and leaves every page as it was.
C25_TerminatesAfterOnePass ==
  /\ (pc = "loop") ~> (pc = "done" /\ idx = Len(results) + 1)
  /\ [][
          /\ (pc = "loop" /\ idx <= Len(results)) =>
              /\ pc' = "loop"
              /\ idx' = idx + 1
              /\ result' = results[idx]
              /\ calls' = calls
              /\ Cardinality({r \in {"hardcoded", "api", "releaseNotes", "none"} :
                                Rule(heap[results[idx]]) = r}) = 1
              /\ heap'[results[idx]].markdown = Annotated(heap[results[idx]], pkg)
              /\ \A o \in DOMAIN heap : o # results[idx] => heap'[o] = heap[o]
          /\ (pc = "loop" /\ pc' = "done") =>
              /\ idx = Len(results) + 1
              /\ heap' = heap
              /\ idx' = idx
          /\ (pc = "loop" /\ results = <<>>) =>
              /\ pc' = "done"
              /\ heap' = heap
              /\ heap = initial
      ]_vars

\* A call on two distinct pages that both match a rule has returned with
\* the iterator past the second position and both pages rewritten.
C25_Witness ==
  /\ pc = "done"
  /\ calls = 1
  /\ results = <<1, 2>>
  /\ idx = 3
  /\ result = 2
  /\ heap[1].markdown # initial[1].markdown
  /\ heap[2].markdown # initial[2].markdown

====
